---- MODULE Spec2Model ----
(***************************************************************************)
(* ProphetRu/MapReduce, src/src/main.cpp: a single-machine MapReduce.      *)
(* The input file is a sequence of bytes; a line (std::string) is a        *)
(* sequence of bytes; a stream position is an integer (pos_type(-1) is -1).*)
(***************************************************************************)
EXTENDS Integers, Sequences, FiniteSets

VARIABLES
    file,                     \* content of the file named by argv[1]
    mnum,                     \* atoi(argv[2])
    rnum,                     \* atoi(argv[3])
    pc,                       \* position of main
    err,                      \* what main's catch block printed to std::cerr
    section_start_positions,  \* main's vector of boundaries, indices 0..mnum
    map_results,              \* main's vector of mapper output lists, indices 0..mnum-1
    shuffle_results,          \* main's vector of buckets, indices 0..rnum-1
    worker_threads,           \* main's vector of threads: index -> record of the thread
    joined,                   \* number of threads of worker_threads joined so far
    fs                        \* output artifacts: reducer index j -> bytes of output_<j>.txt

vars == << file, mnum, rnum, pc, err, section_start_positions, map_results,
           shuffle_results, worker_threads, joined, fs >>

\* ---------------------------------------------------------------- bounds
MaxFileSize == 4
MaxMappers == 3
MaxReducers == 2
MaxItems == 2
MaxLists == 2

\* ---------------------------------------------------------------- bytes
NL == 10
Letters == {97, 98}
Bytes == Letters \cup {NL}

RECURSIVE SeqsUpTo(_, _)
SeqsUpTo(S, n) ==
    IF n = 0 THEN {<<>>}
    ELSE LET shorter == SeqsUpTo(S, n - 1)
         IN  shorter \cup {Append(s, x) : s \in {t \in shorter : Len(t) = n - 1}, x \in S}

\* ---------------------------------------------------------------- std::ifstream
\* An open input stream: the read position and the state bits that the
\* operations below read and set.
OpenStream == [pos |-> 0, eofbit |-> FALSE, failbit |-> FALSE]
ClosedStream == [pos |-> -1, eofbit |-> FALSE, failbit |-> FALSE]

good(s) == ~s.eofbit /\ ~s.failbit

\* seekg(pos): clears eofbit, then seeks unless the stream has failed; a
\* negative position makes the seek fail.
seekg(s, p) ==
    LET c == [s EXCEPT !.eofbit = FALSE]
    IN  IF c.failbit THEN c
        ELSE IF p < 0 THEN [c EXCEPT !.failbit = TRUE]
        ELSE [c EXCEPT !.pos = p]

\* tellg(): its sentry sets failbit when the stream is not good; the result is
\* pos_type(-1) when the stream has failed.
tellg(s) ==
    IF good(s) THEN [stream |-> s, value |-> s.pos]
    ELSE [stream |-> [s EXCEPT !.failbit = TRUE], value |-> -1]

\* Offset of the first line terminator at or after offset p, or -1.
NextTerminator(f, p) ==
    LET at == {k \in p..(Len(f) - 1) : f[k + 1] = NL}
    IN  IF at = {} THEN -1 ELSE CHOOSE k \in at : \A m \in at : k <= m

\* std::getline(stream, line): reads up to and including the next '\n'; at
\* end of file it sets eofbit, and failbit too when it extracted nothing.
getline(f, s, line) ==
    IF ~good(s)
    THEN [stream |-> [s EXCEPT !.failbit = TRUE], line |-> line, ok |-> FALSE]
    ELSE LET k == NextTerminator(f, s.pos)
         IN  IF k >= 0
             THEN [stream |-> [s EXCEPT !.pos = k + 1],
                   line |-> SubSeq(f, s.pos + 1, k), ok |-> TRUE]
             ELSE [stream |-> [s EXCEPT !.pos = IF s.pos > Len(f) THEN s.pos ELSE Len(f),
                                        !.eofbit = TRUE,
                                        !.failbit = (s.pos >= Len(f))],
                   line |-> SubSeq(f, s.pos + 1, Len(f)),
                   ok |-> s.pos < Len(f)]

\* ---------------------------------------------------------------- SplitFileIntoSections
get_file_size(f) == Len(f)

\* section_size with the divisor off by one.
section_sizeOffByOne(f, num_sections) == get_file_size(f) \div (num_sections + 1)

section_size(f, num_sections) == get_file_size(f) \div num_sections

\* The loop of SplitFileIntoSections from index i on: s is input_file, b the
\* vector section_start_positions.
RECURSIVE SplitLoop(_, _, _, _, _)
SplitLoop(f, num_sections, i, s, b) ==
    IF i >= num_sections THEN b
    ELSE LET sought == seekg(s, section_size(f, num_sections) * i)
             got == getline(f, sought, <<>>)
             told == tellg(got.stream)
         IN  SplitLoop(f, num_sections, i + 1, told.stream, [b EXCEPT ![i] = told.value])

\* The vector returned for a file that opened, is not empty, and num_sections > 0.
SplitFileIntoSections(f, num_sections) ==
    [SplitLoop(f, num_sections, 1, OpenStream, [i \in 0..num_sections |-> 0])
        EXCEPT ![num_sections] = get_file_size(f)]

\* SplitError without the check of the file size.
SplitErrorNoSizeCheck(f, num_sections, opened) ==
    IF num_sections <= 0 THEN "Invalid argument"
    ELSE IF ~opened THEN "Can't open file"
    ELSE ""

\* SplitError with the file checked before the arguments.
SplitErrorFileFirst(f, num_sections, opened) ==
    IF ~opened THEN "Can't open file"
    ELSE IF get_file_size(f) <= 0 THEN "File is empty"
    ELSE IF num_sections <= 0 THEN "Invalid argument"
    ELSE ""

\* SplitError with the reducer count rejected along with the mapper count.
SplitErrorBothCounts(f, num_sections, opened) ==
    IF num_sections <= 0 \/ rnum <= 0 THEN "Invalid argument"
    ELSE IF ~opened THEN "Can't open file"
    ELSE IF get_file_size(f) <= 0 THEN "File is empty"
    ELSE ""

\* The message of the exception SplitFileIntoSections throws, or "" when it returns.
SplitError(f, num_sections, opened) ==
    IF num_sections <= 0 THEN "Invalid argument"
    ELSE IF ~opened THEN "Can't open file"
    ELSE IF get_file_size(f) <= 0 THEN "File is empty"
    ELSE ""

\* ---------------------------------------------------------------- MapSection
\* main's map_func: the list holding the line.
map_func(line) == << line >>

\* The message of the exception MapSection throws, or "" when it gets to its
\* loop: the argument check, then the open of the input file.
MapError(path_given, func_set, opened) ==
    IF ~path_given \/ ~func_set THEN "Invalid argument"
    ELSE IF ~opened THEN "Can't open file"
    ELSE ""

\* MapSection up to its loop: the stream after the file opened and seekg(start_pos).
MapSeek(start_pos) == seekg(OpenStream, start_pos)

\* MapCondition with the position compared by <=.
MapConditionInclusive(f, s, end_pos, line) ==
    LET told == tellg(s)
    IN  IF told.value <= end_pos
        THEN LET got == getline(f, told.stream, line)
             IN  [entered |-> got.ok, stream |-> got.stream, line |-> got.line]
        ELSE [entered |-> FALSE, stream |-> told.stream, line |-> line]

\* One evaluation of the loop condition
\*   input_file.tellg() < end_pos && std::getline(input_file, line)
\* entered: whether the body runs; stream, line: the state it leaves.
MapCondition(f, s, end_pos, line) ==
    LET told == tellg(s)
    IN  IF told.value < end_pos
        THEN LET got == getline(f, told.stream, line)
             IN  [entered |-> got.ok, stream |-> got.stream, line |-> got.line]
        ELSE [entered |-> FALSE, stream |-> told.stream, line |-> line]

\* The loop body: output_list with map_func(line) inserted at its end.
MapBody(output_list, line) == output_list \o map_func(line)

\* The loop of MapSection run to its end from the stream s: output_list.
RECURSIVE MapLoop(_, _, _, _)
MapLoop(f, s, end_pos, output_list) ==
    LET c == MapCondition(f, s, end_pos, <<>>)
    IN  IF c.entered THEN MapLoop(f, c.stream, end_pos, MapBody(output_list, c.line))
        ELSE output_list

\* output_list after a call of MapSection that runs alone, for a file that opens.
MapSection(f, start_pos, end_pos) == MapLoop(f, MapSeek(start_pos), end_pos, <<>>)

\* ---------------------------------------------------------------- Shuffle
\* std::string's operator<, the order of the keys of std::map<std::string, ...>.
RECURSIVE StringLess(_, _)
StringLess(a, b) ==
    IF b = <<>> THEN FALSE
    ELSE IF a = <<>> THEN TRUE
    ELSE IF Head(a) # Head(b) THEN Head(a) < Head(b)
    ELSE StringLess(Tail(a), Tail(b))

\* The items of map_results in the order the two nested loops visit them.
RECURSIVE VisitOrder(_, _)
VisitOrder(results, i) ==
    IF i \notin DOMAIN results THEN <<>>
    ELSE results[i] \o VisitOrder(results, i + 1)

\* PushBack with a group that keeps one occurrence of its key.
PushBackOnce(grouped, item) ==
    [k \in DOMAIN grouped \cup {item} |-> << k >>]

\* grouped_results[item].push_back(item)
PushBack(grouped, item) ==
    IF item \in DOMAIN grouped
    THEN [grouped EXCEPT ![item] = Append(@, item)]
    ELSE [k \in DOMAIN grouped \cup {item} |-> IF k = item THEN << item >> ELSE grouped[k]]

\* grouped_results after the grouping loops have visited items.
RECURSIVE GroupItems(_, _)
GroupItems(items, grouped) ==
    IF items = <<>> THEN grouped
    ELSE GroupItems(Tail(items), PushBack(grouped, Head(items)))

\* The keys of the map in its iteration order (ascending).
RECURSIVE KeyOrder(_)
KeyOrder(keys) ==
    IF keys = {} THEN <<>>
    ELSE LET least == CHOOSE k \in keys : \A other \in keys \ {k} : StringLess(k, other)
         IN  << least >> \o KeyOrder(keys \ {least})

\* BucketIndex with the counter advanced before it is used.
BucketIndexAfterIncrement(i, num_reducers) == (i + 1) % num_reducers

\* The index of the reducer that receives the group visited when the counter is i.
BucketIndex(i, num_reducers) == i % num_reducers

\* The distribution loop from counter value i on.
RECURSIVE Distribute(_, _, _, _, _)
Distribute(order, grouped, num_reducers, i, results) ==
    IF i >= Len(order) THEN results
    ELSE Distribute(order, grouped, num_reducers, i + 1,
                    [results EXCEPT ![BucketIndex(i, num_reducers)] = @ \o grouped[order[i + 1]]])

\* The vector Shuffle returns for a non-empty map_results and num_reducers > 0.
Shuffle(results, num_reducers) ==
    LET grouped == GroupItems(VisitOrder(results, 0), <<>>)
    IN  Distribute(KeyOrder(DOMAIN grouped), grouped, num_reducers, 0,
                   [j \in 0..(num_reducers - 1) |-> <<>>])

\* The message of the exception Shuffle throws, or "" when it returns.
ShuffleError(results, num_reducers) ==
    IF DOMAIN results = {} \/ num_reducers <= 0 THEN "Invalid argument" ELSE ""

\* ---------------------------------------------------------------- ReduceContainer
\* main's reduce_func: the list itself.
reduce_func(list) == list

\* ReduceError without the check of input_list.empty().
ReduceErrorNoEmptyCheck(input_list, func_set, name_given, opened) ==
    IF ~func_set \/ ~name_given THEN "Invalid argument"
    ELSE IF ~opened THEN "Can't open file"
    ELSE ""

\* The message of the exception ReduceContainer throws, or "" when it gets to
\* writing: the argument check, then the open of the output file.
ReduceError(input_list, func_set, name_given, opened) ==
    IF input_list = <<>> \/ ~func_set \/ ~name_given THEN "Invalid argument"
    ELSE IF ~opened THEN "Can't open file"
    ELSE ""

\* WriteItem without the std::endl.
WriteItemNoEndl(content, item) == content \o item

\* output_file << item << std::endl
WriteItem(content, item) == content \o item \o << NL >>

\* The output directory with output_<j>.txt holding content (created or truncated).
WithArtifact(dir, j, content) ==
    [k \in DOMAIN dir \cup {j} |-> IF k = j THEN content ELSE dir[k]]

\* ReduceContainer with the output file opened before the arguments are checked.
ReduceBeginOpenFirst(input_list, func_set, name_given, opened, dir, j) ==
    [thrown |-> ReduceError(input_list, func_set, name_given, opened),
     applied |-> TRUE,
     reduced |-> reduce_func(input_list),
     dir |-> IF opened THEN WithArtifact(dir, j, <<>>) ELSE dir]

\* ReduceContainer, lines 165-179, called for output_<j>.txt in the directory
\* dir: the exception it throws ("" when none), whether reduce_func was applied,
\* the list reduced, and the directory it leaves.
ReduceBegin(input_list, func_set, name_given, opened, dir, j) ==
    IF ReduceError(input_list, func_set, name_given, opened) = "Invalid argument"
    THEN [thrown |-> "Invalid argument", applied |-> FALSE, reduced |-> <<>>, dir |-> dir]
    ELSE [thrown |-> ReduceError(input_list, func_set, name_given, opened),
          applied |-> TRUE,
          reduced |-> reduce_func(input_list),
          dir |-> IF opened THEN WithArtifact(dir, j, <<>>) ELSE dir]

\* ---------------------------------------------------------------- main
\* A std::thread of worker_threads, with the locals of the function it runs:
\* status is "spawned" (created, nothing run yet), "running", "finished"
\* (the function returned) or "threw" (an exception left the function).
\* path_given, func_set: the arguments bound at the spawn (a non-empty file
\* path or output name, a callable map or reduce function); thrown: the message
\* of the exception that left the function; applied: reduce_func was called.
NewThread ==
    [status |-> "spawned", path_given |-> TRUE, func_set |-> TRUE,
     stream |-> ClosedStream, applied |-> FALSE, reduced |-> <<>>, next |-> 0,
     thrown |-> ""]

\* The slot of map_results that mapper i is given by reference.
OutputSlotShared(i) == 0

OutputSlot(i) == i

\* The bucket of shuffle_results that reducer j is given by reference.
InputBucket(j) == j

\* The artifact that "output_" + std::to_string(j) + ".txt" names.
output_file_name(j) == j

size(vector) == Cardinality(DOMAIN vector)

emplace_back(vector, x) ==
    [k \in 0..size(vector) |-> IF k < size(vector) THEN vector[k] ELSE x]

\* What an artifact left by an earlier run holds.
StaleArtifact == << 120 >>

\* A join that does not wait for the thread.
JoinReturnsAtOnce(thread) == thread.status \in {"spawned", "running", "finished"}

\* thread.join() returns once the thread's function has returned.
JoinReturns(thread) == thread.status = "finished"

\* main, lines 200-205: the arguments are read.
Start ==
    /\ pc = "Idle"
    /\ pc' = "Sectioning"
    /\ UNCHANGED << file, mnum, rnum, err, section_start_positions, map_results,
                    shuffle_results, worker_threads, joined, fs >>

\* main, lines 208-212: SplitFileIntoSections returns; map_results is built.
SplitReturns ==
    /\ pc = "Sectioning"
    /\ \E opened \in BOOLEAN :
          /\ SplitError(file, mnum, opened) = ""
          /\ section_start_positions' = SplitFileIntoSections(file, mnum)
    /\ map_results' = [i \in 0..(mnum - 1) |-> <<>>]
    /\ pc' = "Mapping"
    /\ UNCHANGED << file, mnum, rnum, err, shuffle_results, worker_threads, joined, fs >>

\* main, line 208 and lines 259-262: SplitFileIntoSections throws, main prints.
SplitThrows ==
    /\ pc = "Sectioning"
    /\ \E opened \in BOOLEAN :
          /\ SplitError(file, mnum, opened) # ""
          /\ err' = SplitError(file, mnum, opened)
    /\ pc' = "Failed"
    /\ UNCHANGED << file, mnum, rnum, section_start_positions, map_results,
                    shuffle_results, worker_threads, joined, fs >>

\* main, lines 220-223: one iteration of the loop that spawns the mappers.
SpawnMapper ==
    /\ pc = "Mapping"
    /\ size(worker_threads) < mnum
    /\ worker_threads' = emplace_back(worker_threads, NewThread)
    /\ UNCHANGED << file, mnum, rnum, pc, err, section_start_positions, map_results,
                    shuffle_results, joined, fs >>

\* MapSection in thread i, lines 94-108: the file opens and the stream seeks.
MapOpens(i) ==
    /\ pc = "Mapping"
    /\ i \in DOMAIN worker_threads
    /\ worker_threads[i].status = "spawned"
    /\ MapError(worker_threads[i].path_given, worker_threads[i].func_set, TRUE) = ""
    /\ worker_threads' = [worker_threads EXCEPT
          ![i].status = "running",
          ![i].stream = MapSeek(section_start_positions[i])]
    /\ UNCHANGED << file, mnum, rnum, pc, err, section_start_positions, map_results,
                    shuffle_results, joined, fs >>

\* MapSection in thread i, lines 102-105: the open fails and the exception
\* leaves the thread's function: std::terminate ends the process.
MapThrows(i) ==
    /\ pc = "Mapping"
    /\ i \in DOMAIN worker_threads
    /\ worker_threads[i].status = "spawned"
    /\ \E opened \in BOOLEAN :
          /\ MapError(worker_threads[i].path_given, worker_threads[i].func_set, opened) # ""
          /\ worker_threads' = [worker_threads EXCEPT
                ![i].status = "threw",
                ![i].thrown = MapError(worker_threads[i].path_given,
                                       worker_threads[i].func_set, opened)]
    /\ pc' = "Aborted"
    /\ UNCHANGED << file, mnum, rnum, err, section_start_positions, map_results,
                    shuffle_results, joined, fs >>

\* MapSection in thread i, lines 110-114: the condition holds, the body runs.
MapLine(i) ==
    /\ pc = "Mapping"
    /\ i \in DOMAIN worker_threads
    /\ worker_threads[i].status = "running"
    /\ LET c == MapCondition(file, worker_threads[i].stream,
                             section_start_positions[i + 1], <<>>)
       IN  /\ c.entered
           /\ worker_threads' = [worker_threads EXCEPT ![i].stream = c.stream]
           /\ map_results' = [map_results EXCEPT ![OutputSlot(i)] = MapBody(@, c.line)]
    /\ UNCHANGED << file, mnum, rnum, pc, err, section_start_positions,
                    shuffle_results, joined, fs >>

\* MapSection in thread i, lines 110 and 117-118: the condition fails, the
\* function returns.
MapReturns(i) ==
    /\ pc = "Mapping"
    /\ i \in DOMAIN worker_threads
    /\ worker_threads[i].status = "running"
    /\ ~MapCondition(file, worker_threads[i].stream,
                     section_start_positions[i + 1], <<>>).entered
    /\ worker_threads' = [worker_threads EXCEPT
          ![i].status = "finished", ![i].stream = ClosedStream]
    /\ UNCHANGED << file, mnum, rnum, pc, err, section_start_positions, map_results,
                    shuffle_results, joined, fs >>

\* main, lines 226-233: one iteration of the loop that joins the mappers; after
\* the last one worker_threads is cleared and main goes on to Shuffle.
JoinMapper ==
    /\ pc = "Mapping"
    /\ size(worker_threads) = mnum
    /\ joined < mnum
    /\ JoinReturns(worker_threads[joined])
    /\ IF joined + 1 = mnum
       THEN /\ worker_threads' = <<>>
            /\ joined' = 0
            /\ pc' = "Shuffling"
       ELSE /\ joined' = joined + 1
            /\ UNCHANGED << worker_threads, pc >>
    /\ UNCHANGED << file, mnum, rnum, err, section_start_positions, map_results,
                    shuffle_results, fs >>

\* main, line 236: Shuffle returns.
ShuffleReturns ==
    /\ pc = "Shuffling"
    /\ ShuffleError(map_results, rnum) = ""
    /\ shuffle_results' = Shuffle(map_results, rnum)
    /\ pc' = "Reducing"
    /\ UNCHANGED << file, mnum, rnum, err, section_start_positions, map_results,
                    worker_threads, joined, fs >>

\* main, line 236 and lines 259-262: Shuffle throws, main prints.
ShuffleThrows ==
    /\ pc = "Shuffling"
    /\ ShuffleError(map_results, rnum) # ""
    /\ err' = ShuffleError(map_results, rnum)
    /\ pc' = "Failed"
    /\ UNCHANGED << file, mnum, rnum, section_start_positions, map_results,
                    shuffle_results, worker_threads, joined, fs >>

\* main, lines 244-248: one iteration of the loop that spawns the reducers.
SpawnReducer ==
    /\ pc = "Reducing"
    /\ size(worker_threads) < rnum
    /\ worker_threads' = emplace_back(worker_threads, NewThread)
    /\ UNCHANGED << file, mnum, rnum, pc, err, section_start_positions, map_results,
                    shuffle_results, joined, fs >>

\* ReduceContainer in thread j, lines 165-179: the arguments are valid, the
\* list is reduced and output_<j>.txt opens (created, or truncated).
ReduceOpens(j) ==
    /\ pc = "Reducing"
    /\ j \in DOMAIN worker_threads
    /\ worker_threads[j].status = "spawned"
    /\ LET r == ReduceBegin(shuffle_results[InputBucket(j)], worker_threads[j].func_set,
                            worker_threads[j].path_given, TRUE, fs, output_file_name(j))
       IN  /\ r.thrown = ""
           /\ worker_threads' = [worker_threads EXCEPT
                 ![j].status = "running",
                 ![j].applied = r.applied,
                 ![j].reduced = r.reduced]
           /\ fs' = r.dir
    /\ UNCHANGED << file, mnum, rnum, pc, err, section_start_positions, map_results,
                    shuffle_results, joined >>

\* ReduceContainer in thread j, lines 166-169 and 176-179: the exception leaves
\* the thread's function: std::terminate ends the process.
ReduceThrows(j) ==
    /\ pc = "Reducing"
    /\ j \in DOMAIN worker_threads
    /\ worker_threads[j].status = "spawned"
    /\ \E opened \in BOOLEAN :
          LET r == ReduceBegin(shuffle_results[InputBucket(j)], worker_threads[j].func_set,
                               worker_threads[j].path_given, opened, fs, output_file_name(j))
          IN  /\ r.thrown # ""
              /\ worker_threads' = [worker_threads EXCEPT
                    ![j].status = "threw",
                    ![j].applied = r.applied,
                    ![j].thrown = r.thrown]
              /\ fs' = r.dir
    /\ pc' = "Aborted"
    /\ UNCHANGED << file, mnum, rnum, err, section_start_positions, map_results,
                    shuffle_results, joined >>

\* ReduceContainer in thread j, lines 182-185: one item is written.
ReduceWrites(j) ==
    /\ pc = "Reducing"
    /\ j \in DOMAIN worker_threads
    /\ worker_threads[j].status = "running"
    /\ worker_threads[j].next < Len(worker_threads[j].reduced)
    /\ fs' = [fs EXCEPT ![output_file_name(j)] =
                 WriteItem(@, worker_threads[j].reduced[worker_threads[j].next + 1])]
    /\ worker_threads' = [worker_threads EXCEPT ![j].next = @ + 1]
    /\ UNCHANGED << file, mnum, rnum, pc, err, section_start_positions, map_results,
                    shuffle_results, joined >>

\* ReduceContainer in thread j, lines 182 and 188-189: the loop is over, the
\* file is closed and the function returns.
ReduceReturns(j) ==
    /\ pc = "Reducing"
    /\ j \in DOMAIN worker_threads
    /\ worker_threads[j].status = "running"
    /\ worker_threads[j].next >= Len(worker_threads[j].reduced)
    /\ worker_threads' = [worker_threads EXCEPT
          ![j].status = "finished", ![j].reduced = <<>>, ![j].next = 0]
    /\ UNCHANGED << file, mnum, rnum, pc, err, section_start_positions, map_results,
                    shuffle_results, joined, fs >>

\* main, lines 251-264: one iteration of the loop that joins the reducers; after
\* the last one main returns.
JoinReducer ==
    /\ pc = "Reducing"
    /\ size(worker_threads) = rnum
    /\ joined < rnum
    /\ JoinReturns(worker_threads[joined])
    /\ joined' = joined + 1
    /\ pc' = IF joined + 1 = rnum THEN "Done" ELSE pc
    /\ UNCHANGED << file, mnum, rnum, err, section_start_positions, map_results,
                    shuffle_results, worker_threads, fs >>

\* ---------------------------------------------------------------- specification
\* The input of the scenario: the lines a, b, a, c.
ScenarioFile == << 97, NL, 98, NL, 97, NL, 99, NL >>

InitialArtifacts ==
    { <<>>, [j \in 0..MaxReducers |-> StaleArtifact] }

Init ==
    /\ file \in SeqsUpTo(Bytes, MaxFileSize) \cup {ScenarioFile}
    /\ mnum \in -1..MaxMappers
    /\ rnum \in -1..MaxReducers
    /\ pc = "Idle"
    /\ err = ""
    /\ section_start_positions = <<>>
    /\ map_results = <<>>
    /\ shuffle_results = <<>>
    /\ worker_threads = <<>>
    /\ joined = 0
    /\ fs \in InitialArtifacts

Mapper(i) == MapOpens(i) \/ MapThrows(i) \/ MapLine(i) \/ MapReturns(i)

Reducer(j) == ReduceOpens(j) \/ ReduceThrows(j) \/ ReduceWrites(j) \/ ReduceReturns(j)

Next ==
    \/ Start
    \/ SplitReturns
    \/ SplitThrows
    \/ SpawnMapper
    \/ \E i \in 0..(MaxMappers - 1) : Mapper(i)
    \/ JoinMapper
    \/ ShuffleReturns
    \/ ShuffleThrows
    \/ SpawnReducer
    \/ \E j \in 0..(MaxReducers - 1) : Reducer(j)
    \/ JoinReducer

Spec == Init /\ [][Next]_vars

\* Shuffle alone, on every small vector of mapper outputs and reducer count.
ShuffleKeys == { << 97 >>, << 97, 97 >>, << 98 >> }

ShuffleInputs ==
    UNION { [0..(n - 1) -> SeqsUpTo(ShuffleKeys, MaxItems)] : n \in 0..MaxLists }

InitShuffle ==
    /\ map_results \in ShuffleInputs
    /\ mnum = size(map_results)
    /\ rnum \in -1..MaxReducers
    /\ pc = "Shuffling"
    /\ file = <<>>
    /\ err = ""
    /\ section_start_positions = <<>>
    /\ shuffle_results = <<>>
    /\ worker_threads = <<>>
    /\ joined = 0
    /\ fs = <<>>

NextShuffle == ShuffleReturns \/ ShuffleThrows

SpecShuffle == InitShuffle /\ [][NextShuffle]_vars

\* ReduceContainer alone, on every small list, with or without a reduce
\* function and an output name, over an empty directory or artifacts of an
\* earlier run.
InitReduce ==
    /\ shuffle_results \in [{0} -> SeqsUpTo(ShuffleKeys, MaxItems)]
    /\ worker_threads \in
          { [k \in {0} |-> [NewThread EXCEPT !.func_set = func, !.path_given = name]] :
                func \in BOOLEAN, name \in BOOLEAN }
    /\ fs \in InitialArtifacts
    /\ pc = "Reducing"
    /\ rnum = 1
    /\ mnum = 1
    /\ file = <<>>
    /\ err = ""
    /\ section_start_positions = <<>>
    /\ map_results = <<>>
    /\ joined = 0

NextReduce == Reducer(0)

SpecReduce == InitReduce /\ [][NextReduce]_vars

\* MapSection alone, on every small file, from every start of a line (or the
\* end of the file) to every end position.
LineStarts(f) == {p \in 0..Len(f) : p = 0 \/ f[p] = NL}

InitMap ==
    /\ file \in SeqsUpTo(Bytes, MaxFileSize)
    /\ section_start_positions \in
          { [k \in 0..1 |-> IF k = 0 THEN start ELSE end] :
                start \in LineStarts(file), end \in 0..(Len(file) + 1) }
    /\ map_results = [k \in {0} |-> <<>>]
    /\ worker_threads = [k \in {0} |-> NewThread]
    /\ pc = "Mapping"
    /\ mnum = 1
    /\ rnum = 1
    /\ err = ""
    /\ shuffle_results = <<>>
    /\ joined = 0
    /\ fs = <<>>

NextMap == Mapper(0)

SpecMap == InitMap /\ [][NextMap]_vars

\* ---------------------------------------------------------------- vocabulary of the properties
Range(seq) == {seq[k] : k \in DOMAIN seq}

Count(x, seq) == Cardinality({k \in DOMAIN seq : seq[k] = x})

\* The multiset of the elements of a sequence.
BagOf(seq) == [x \in Range(seq) |-> Count(x, seq)]

\* The elements of the lists of a vector, list after list.
RECURSIVE Concat(_, _)
Concat(vector, i) ==
    IF i \notin DOMAIN vector THEN <<>> ELSE vector[i] \o Concat(vector, i + 1)

\* The lines of a newline-delimited text: a last line without a terminator
\* counts as a line.
RECURSIVE FileLines(_)
FileLines(text) ==
    IF text = <<>> THEN <<>>
    ELSE LET ends == {k \in 1..Len(text) : text[k] = NL}
         IN  IF ends = {} THEN << text >>
             ELSE LET k == CHOOSE e \in ends : \A o \in ends : e <= o
                  IN  << SubSeq(text, 1, k - 1) >> \o FileLines(SubSeq(text, k + 1, Len(text)))

\* A list of strings as the bytes of a text with one string per line.
RECURSIVE LinesAsBytes(_)
LinesAsBytes(list) ==
    IF list = <<>> THEN <<>>
    ELSE Head(list) \o << NL >> \o LinesAsBytes(Tail(list))

\* Lexicographic order of two strings, by their first difference.
LexBefore(a, b) ==
    \E n \in 0..Len(a) :
        /\ n <= Len(b)
        /\ SubSeq(a, 1, n) = SubSeq(b, 1, n)
        /\ \/ n = Len(a) /\ n < Len(b)
           \/ n < Len(a) /\ n < Len(b) /\ a[n + 1] < b[n + 1]

\* SplitFileIntoSections has returned to main.
Sectioned == pc \in {"Mapping", "Shuffling", "Reducing", "Done"}

\* ---------------------------------------------------------------- C1
\* C1 (Coverage): once every mapper has been joined, the sizes of the mapper
\* outputs sum to the number of lines of the input file, and the mapper outputs
\* together hold every input line exactly as often as the file does.
CoverageClaim ==
    pc = "Shuffling" =>
        /\ Len(Concat(map_results, 0)) = Len(FileLines(file))
        /\ BagOf(Concat(map_results, 0)) = BagOf(FileLines(file))

\* ---------------------------------------------------------------- C2
\* C2 (Section invariant): the vector SplitFileIntoSections returns has the
\* indices 0..n, starts at 0, ends at the file size and never decreases.
SectionInvariantClaim ==
    Sectioned =>
        /\ DOMAIN section_start_positions = 0..mnum
        /\ section_start_positions[0] = 0
        /\ section_start_positions[mnum] = Len(file)
        /\ \A i \in 0..(mnum - 1) :
              section_start_positions[i] <= section_start_positions[i + 1]

\* ---------------------------------------------------------------- C3
\* C3 (Boundary alignment): every boundary other than 0 and the file size is
\* the offset right after a line terminator.
AlignmentClaim ==
    Sectioned =>
        \A i \in 0..mnum :
            \/ section_start_positions[i] = 0
            \/ section_start_positions[i] = Len(file)
            \/ /\ section_start_positions[i] \in 1..Len(file)
               /\ file[section_start_positions[i]] = NL

\* ---------------------------------------------------------------- C4
\* The buckets that hold at least one occurrence of key.
BucketsHolding(key) ==
    {j \in DOMAIN shuffle_results : Count(key, shuffle_results[j]) > 0}

\* C4 (Partition correctness of Shuffle): after Shuffle there are r buckets,
\* every key of the mapper outputs is in exactly one bucket, as often there as
\* in all mapper outputs together, and the bucket sizes sum to the sum of the
\* mapper output sizes.
PartitionCorrect ==
    pc = "Reducing" =>
        /\ DOMAIN shuffle_results = 0..(rnum - 1)
        /\ \A key \in Range(Concat(map_results, 0)) :
              /\ Cardinality(BucketsHolding(key)) = 1
              /\ \A j \in BucketsHolding(key) :
                    Count(key, shuffle_results[j]) = Count(key, Concat(map_results, 0))
        /\ Len(Concat(shuffle_results, 0)) = Len(Concat(map_results, 0))
        /\ BagOf(Concat(shuffle_results, 0)) = BagOf(Concat(map_results, 0))

\* Shuffle has returned two buckets for three keys, one of them emitted by two
\* different mappers.
PartitionWitness ==
    /\ pc = "Reducing"
    /\ rnum = 2
    /\ Cardinality(Range(Concat(map_results, 0))) = 3
    /\ size(map_results) = 2
    /\ \E key \in Range(Concat(map_results, 0)) :
          /\ Count(key, map_results[0]) > 0
          /\ Count(key, map_results[1]) > 0

\* ---------------------------------------------------------------- C5
\* The number of distinct keys of the mapper outputs that come before key.
Rank(key) ==
    Cardinality({other \in Range(Concat(map_results, 0)) : LexBefore(other, key)})

\* C5 (Round-robin by distinct key): after Shuffle every occurrence of the key
\* of rank k (among the distinct keys, ascending) is in bucket k mod r, and
\* every bucket lists its items in ascending key order.
RoundRobinByKey ==
    pc = "Reducing" =>
        /\ \A key \in Range(Concat(map_results, 0)) :
              Count(key, shuffle_results[Rank(key) % rnum]) = Count(key, Concat(map_results, 0))
        /\ \A j \in DOMAIN shuffle_results :
              \A p, q \in DOMAIN shuffle_results[j] :
                  p < q => ~LexBefore(shuffle_results[j][q], shuffle_results[j][p])

\* Shuffle has returned two buckets for three keys, so that the counter wrapped
\* around, and the least key occurs twice, so that counting occurrences would
\* place the later keys elsewhere.
RoundRobinWitness ==
    /\ pc = "Reducing"
    /\ rnum = 2
    /\ Cardinality(Range(Concat(map_results, 0))) = 3
    /\ Count(<< 97 >>, Concat(map_results, 0)) = 2
    /\ Len(shuffle_results[0]) = 3

\* ---------------------------------------------------------------- C6
\* The lines of output_0.txt .. output_<R-1>.txt, artifact after artifact.
RECURSIVE OutputLines(_)
OutputLines(j) ==
    IF j >= rnum THEN <<>>
    ELSE (IF j \in DOMAIN fs THEN FileLines(fs[j]) ELSE <<>>) \o OutputLines(j + 1)

\* C6 (Round-trip under identity functions): when the run has ended, the lines
\* of the output artifacts together are the lines of the input file, each as
\* often as in the input file.
RoundTripClaim ==
    pc = "Done" => BagOf(OutputLines(0)) = BagOf(FileLines(file))

\* ---------------------------------------------------------------- C7
\* C7 (Worker failure containment): a worker whose function threw leaves the
\* process running: main observes the failure at the join of that phase, where
\* it reports it and ends as Failed.
ContainmentClaim ==
    \A i \in DOMAIN worker_threads :
        worker_threads[i].status = "threw" => pc \in {"Mapping", "Reducing", "Failed"}

\* ---------------------------------------------------------------- C8
\* The steps of the driver's state machine.
DriverSteps ==
    { << "Idle", "Sectioning" >>, << "Sectioning", "Mapping" >>,
      << "Mapping", "Shuffling" >>, << "Shuffling", "Reducing" >>,
      << "Reducing", "Done" >>,
      << "Sectioning", "Failed" >>, << "Mapping", "Failed" >>,
      << "Shuffling", "Failed" >>, << "Reducing", "Failed" >> }

\* C8 (Driver state machine): the driver moves only along Idle, Sectioning,
\* Mapping, Shuffling, Reducing, Done, or on a failure of the stage it is in to
\* Failed; a step in which a worker fails is a step to Failed; in Failed
\* nothing changes any more.
DriverClaim ==
    [][ /\ pc' # pc => << pc, pc' >> \in DriverSteps
        /\ (\E i \in DOMAIN worker_threads' : worker_threads'[i].status = "threw")
              => pc' = "Failed"
        /\ pc = "Failed" => UNCHANGED vars ]_vars

\* ---------------------------------------------------------------- C9
\* C9 (Terminal success): when main has passed both barriers and returns,
\* output_<j>.txt exists for every j < R and holds the elements of reducer j's
\* result, one per line, in order; the run has created or written no other
\* artifact.
TerminalSuccess ==
    pc = "Done" =>
        /\ \A j \in 0..(rnum - 1) :
              /\ j \in DOMAIN fs
              /\ fs[j] = LinesAsBytes(reduce_func(shuffle_results[j]))
        /\ \A j \in DOMAIN fs \ (0..(rnum - 1)) : fs[j] = StaleArtifact
        /\ DOMAIN fs \in {0..(rnum - 1), 0..MaxReducers}

\* main returns after two reducers, one of them with several items, have
\* replaced artifacts of an earlier run.
TerminalSuccessWitness ==
    /\ pc = "Done"
    /\ rnum = 2
    /\ Len(shuffle_results[0]) >= 2
    /\ MaxReducers \in DOMAIN fs

\* ---------------------------------------------------------------- C10
AllFinished(n) ==
    /\ size(worker_threads) = n
    /\ \A i \in DOMAIN worker_threads : worker_threads[i].status = "finished"

\* C10 (Two barriers): main goes on to Shuffle only when all M mappers have
\* finished, and the mapper outputs never change from then on; a reducer is
\* spawned only when Shuffle has returned all R buckets, and the buckets never
\* change from then on; main reaches its end only when all R reducers have
\* finished.
TwoBarriers ==
    [][ /\ (pc = "Mapping" /\ pc' = "Shuffling") => AllFinished(mnum)
        /\ pc \in {"Shuffling", "Reducing", "Done"} => map_results' = map_results
        /\ (pc = "Reducing" /\ size(worker_threads') > size(worker_threads))
              => DOMAIN shuffle_results = 0..(rnum - 1)
        /\ pc \in {"Reducing", "Done"} => shuffle_results' = shuffle_results
        /\ (pc = "Reducing" /\ pc' = "Done") => AllFinished(rnum) ]_vars

\* main has returned after joining two mappers and two reducers.
TwoBarriersWitness ==
    /\ pc = "Done"
    /\ mnum >= 2
    /\ rnum >= 2
    /\ Len(Concat(map_results, 0)) >= 2

\* ---------------------------------------------------------------- C11
\* The threads whose record the step changes: the workers that take the step.
Stepping ==
    {i \in DOMAIN worker_threads \cap DOMAIN worker_threads' :
        worker_threads'[i] # worker_threads[i]}

\* The output slots the step writes, and the artifacts it creates or writes.
SlotsWritten ==
    {i \in DOMAIN map_results \cap DOMAIN map_results' : map_results'[i] # map_results[i]}

ArtifactsWritten ==
    {j \in DOMAIN fs' : j \notin DOMAIN fs \/ fs'[j] # fs[j]}

\* C11 (Disjoint ownership): a step that writes an output slot is a step of the
\* running Mapping worker of that index and writes no other slot, and main reads
\* the slots (in Shuffle) only when no worker exists; a Reducing worker starts
\* on a bucket that is fully built, reads that bucket only, and a step that
\* writes an artifact is a step of the Reducing worker of that index and writes
\* no other artifact.
DisjointOwnership ==
    [][ /\ pc # "Sectioning" =>
              \A i \in SlotsWritten :
                  /\ pc = "Mapping"
                  /\ Stepping = {i}
                  /\ worker_threads[i].status = "running"
                  /\ SlotsWritten = {i}
        /\ pc = "Shuffling" => worker_threads = <<>>
        /\ \A j \in ArtifactsWritten :
              /\ pc = "Reducing"
              /\ Stepping = {j}
              /\ ArtifactsWritten = {j}
        /\ pc = "Reducing" =>
              \A j \in Stepping :
                  /\ shuffle_results' = shuffle_results
                  /\ worker_threads'[j].status = "running" =>
                        \/ worker_threads'[j].reduced = reduce_func(shuffle_results[j])
                        \/ worker_threads[j].status = "running" ]_vars

\* Two Mapping workers are running at once and each has written its own slot.
DisjointOwnershipWitness ==
    /\ pc = "Mapping"
    /\ \E i, k \in DOMAIN worker_threads :
          /\ i # k
          /\ worker_threads[i].status = "running"
          /\ worker_threads[k].status = "running"
          /\ map_results[i] # <<>>
          /\ map_results[k] # <<>>

\* ---------------------------------------------------------------- C12
\* The mapper outputs of the run in which the sections are mapped one after
\* the other.
SequentialMapResults ==
    [i \in 0..(mnum - 1) |->
        MapSection(file, section_start_positions[i], section_start_positions[i + 1])]

\* C12 (Determinism): the section boundaries and the buckets of a run are fixed
\* by the file content and the two counts: whatever the schedule of the Mapping
\* workers, the boundaries are those SplitFileIntoSections computes for the file
\* and the buckets are those of the run that maps the sections one after the
\* other.
Deterministic ==
    /\ Sectioned => section_start_positions = SplitFileIntoSections(file, mnum)
    /\ DOMAIN shuffle_results # {} =>
          shuffle_results = Shuffle(SequentialMapResults, rnum)

\* Shuffle has returned two non-empty buckets from the outputs of two mappers.
DeterministicWitness ==
    /\ pc = "Reducing"
    /\ rnum = 2
    /\ \E i, k \in DOMAIN map_results :
          i # k /\ map_results[i] # <<>> /\ map_results[k] # <<>>
    /\ \A j \in DOMAIN shuffle_results : shuffle_results[j] # <<>>

\* ---------------------------------------------------------------- C13
\* The run of the scenario: the lines a, b, a, c, two mappers, two reducers.
Scenario == file = ScenarioFile /\ mnum = 2 /\ rnum = 2

\* C13 (Scenario result): when the run of the scenario has ended, output_0.txt
\* holds the lines a, a, c in that order and output_1.txt holds the line b.
ScenarioResult ==
    (Scenario /\ pc = "Done") =>
        /\ 0 \in DOMAIN fs
        /\ 1 \in DOMAIN fs
        /\ fs[0] = << 97, NL, 97, NL, 99, NL >>
        /\ fs[1] = << 98, NL >>

\* The run of the scenario has ended over artifacts of an earlier run.
ScenarioResultWitness ==
    Scenario /\ pc = "Done" /\ MaxReducers \in DOMAIN fs

\* ---------------------------------------------------------------- C14
\* The number of lines of the file whose first byte is at an offset in lo..hi-1.
LinesStartingIn(lo, hi) ==
    Cardinality({p \in 0..(Len(file) - 1) :
                    /\ lo <= p
                    /\ p < hi
                    /\ (p = 0 \/ file[p] = NL)})

\* C14 (Scenario sectioning), as claimed: for the file of the scenario and two
\* mappers each of the two sections holds exactly two lines.
ScenarioSectioningClaim ==
    (file = ScenarioFile /\ mnum = 2 /\ Sectioned) =>
        \A i \in 0..1 :
            LinesStartingIn(section_start_positions[i], section_start_positions[i + 1]) = 2

\* C14, amended: the boundaries are 0, 6, 8: the line that starts at the target
\* offset 4 is read and left to the first section, which holds the three lines
\* a, b, a; the second section holds the line c.
ScenarioSectioning ==
    (file = ScenarioFile /\ mnum = 2 /\ Sectioned) =>
        /\ section_start_positions = [i \in 0..2 |-> IF i = 0 THEN 0 ELSE IF i = 1 THEN 6 ELSE 8]
        /\ LinesStartingIn(section_start_positions[0], section_start_positions[1]) = 3
        /\ LinesStartingIn(section_start_positions[1], section_start_positions[2]) = 1
        /\ pc = "Shuffling" =>
              /\ map_results[0] = << << 97 >>, << 98 >>, << 97 >> >>
              /\ map_results[1] = << << 99 >> >>

\* The two mappers of the scenario have been joined.
ScenarioSectioningWitness ==
    file = ScenarioFile /\ mnum = 2 /\ pc = "Shuffling"

\* ---------------------------------------------------------------- C15
\* Nothing after Sectioning has happened: no worker was spawned, Shuffle did
\* not run and no artifact was created or written.
NothingAfterSectioning ==
    /\ worker_threads = <<>>
    /\ map_results = <<>>
    /\ shuffle_results = <<>>
    /\ fs \in InitialArtifacts

\* C15 (Empty-file scenario), as claimed: the run on a zero-byte file that can
\* be opened ends in Sectioning with the empty-input error, and nothing after
\* Sectioning happens.
EmptyFileClaim ==
    (file = <<>> /\ pc \notin {"Idle", "Sectioning"} /\ err # "Can't open file") =>
        /\ pc = "Failed"
        /\ err = "File is empty"
        /\ NothingAfterSectioning

\* C15, amended: with mapperCount >= 1 the run on a zero-byte file that can be
\* opened ends in Sectioning with the empty-input error (with mapperCount <= 0
\* the error is the invalid argument, which is checked first); in either case
\* nothing after Sectioning happens.
EmptyFile ==
    (file = <<>> /\ pc \notin {"Idle", "Sectioning"}) =>
        /\ pc = "Failed"
        /\ err = IF mnum <= 0 THEN "Invalid argument"
                 ELSE IF err = "Can't open file" THEN err
                 ELSE "File is empty"
        /\ NothingAfterSectioning

\* The run on a zero-byte file with two mappers has failed as empty input.
EmptyFileWitness ==
    file = <<>> /\ mnum = 2 /\ pc = "Failed" /\ err = "File is empty"

\* ---------------------------------------------------------------- C16
\* C16 (Invalid mapper count): with mapperCount <= 0 the run ends in Sectioning
\* with the invalid-argument error, whatever the file; no worker of either
\* phase is spawned and no artifact is created.
InvalidMapperCount ==
    mnum <= 0 =>
        /\ pc \in {"Idle", "Sectioning", "Failed"}
        /\ pc = "Failed" => err = "Invalid argument"
        /\ NothingAfterSectioning

\* The run with mapperCount = 0 on a file with lines has failed.
InvalidMapperCountWitness ==
    mnum = 0 /\ file # <<>> /\ pc = "Failed" /\ err = "Invalid argument"

\* ---------------------------------------------------------------- C17
\* The arguments of the call of ReduceContainer in thread j are invalid.
InvalidReduceCall(j) ==
    \/ shuffle_results[j] = <<>>
    \/ ~worker_threads[j].func_set
    \/ ~worker_threads[j].path_given

\* C17 (Reducer fail-fast): a call of ReduceContainer with an empty list, no
\* reduce function or an empty output name throws InvalidArgument, and only
\* such a call does; it has then not applied the reduce function, and the
\* artifacts are as they were before the call (none created, none truncated).
ReducerFailFast ==
    \A j \in DOMAIN worker_threads :
        /\ (InvalidReduceCall(j) /\ worker_threads[j].status # "spawned") =>
              /\ worker_threads[j].status = "threw"
              /\ worker_threads[j].thrown = "Invalid argument"
              /\ ~worker_threads[j].applied
              /\ fs \in InitialArtifacts
        /\ worker_threads[j].thrown = "Invalid argument" => InvalidReduceCall(j)

\* A call with a non-empty list and no reduce function has thrown, and the
\* artifact of an earlier run is unchanged.
ReducerFailFastWitness ==
    /\ worker_threads[0].status = "threw"
    /\ shuffle_results[0] # <<>>
    /\ ~worker_threads[0].func_set
    /\ 0 \in DOMAIN fs
    /\ fs[0] = StaleArtifact

\* ---------------------------------------------------------------- C18
\* The line of text that starts at offset p, without its terminator.
LineFrom(text, p) ==
    LET ends == {k \in (p + 1)..Len(text) : text[k] = NL}
        stop == IF ends = {} THEN Len(text) + 1
                ELSE CHOOSE e \in ends : \A o \in ends : e <= o
    IN  SubSeq(text, p + 1, stop - 1)

\* The lines of text whose first byte is at an offset in p..hi-1, in file order.
RECURSIVE LinesBeginningIn(_, _, _)
LinesBeginningIn(text, p, hi) ==
    IF p >= hi \/ p >= Len(text) THEN <<>>
    ELSE (IF p = 0 \/ text[p] = NL THEN << LineFrom(text, p) >> ELSE <<>>)
         \o LinesBeginningIn(text, p + 1, hi)

IsPrefix(a, b) == Len(a) <= Len(b) /\ a = SubSeq(b, 1, Len(a))

\* C18 (Mapper line consumption): MapSection from the start of a line has, when
\* it returns, emitted in file order exactly the lines whose first byte is at
\* an offset p with start <= p < end, each whole; while it runs it has emitted
\* the first of them.
LineConsumption ==
    \A i \in DOMAIN worker_threads :
        LET expected == LinesBeginningIn(file, section_start_positions[i],
                                         section_start_positions[i + 1])
        IN  /\ worker_threads[i].status = "finished" => map_results[i] = expected
            /\ worker_threads[i].status = "running" => IsPrefix(map_results[i], expected)

\* MapSection has returned for an end position inside a line: it has emitted
\* that line whole, and left unread a line that begins after the end position.
LineConsumptionWitness ==
    /\ worker_threads[0].status = "finished"
    /\ section_start_positions[1] \notin LineStarts(file)
    /\ section_start_positions[1] < Len(file)
    /\ map_results[0] # <<>>
    /\ \E p \in LineStarts(file) : p > section_start_positions[1] /\ p < Len(file)

\* ---------------------------------------------------------------- C19
\* The number of distinct keys in the mapper outputs.
DistinctKeys == Cardinality(Range(Concat(map_results, 0)))

\* C19 (Empty buckets): once Shuffle has returned, bucket j of the rnum buckets
\* is non-empty exactly when j < K, K being the number of distinct keys; a
\* Reducing worker j >= K is handed an empty bucket, never gets past the
\* argument check (it is spawned, or has thrown "Invalid argument" without
\* applying reduce_func) and output_<j>.txt is not created: it is absent, or
\* still the artifact of an earlier run.
EmptyBuckets ==
    DOMAIN shuffle_results # {} =>
        \A j \in 0..(rnum - 1) :
            /\ shuffle_results[j] # <<>> <=> j < DistinctKeys
            /\ (j >= DistinctKeys /\ j \in DOMAIN worker_threads) =>
                  /\ shuffle_results[InputBucket(j)] = <<>>
                  /\ worker_threads[j].status \in {"spawned", "threw"}
                  /\ worker_threads[j].status = "threw" =>
                        worker_threads[j].thrown = "Invalid argument"
                  /\ ~worker_threads[j].applied
                  /\ output_file_name(j) \in DOMAIN fs =>
                        fs[output_file_name(j)] = StaleArtifact

\* One distinct key and two reducers: worker 0 has created its artifact, worker
\* 1 has thrown "Invalid argument" on its empty bucket and there is no
\* output_1.txt.
EmptyBucketsWitness ==
    /\ rnum = 2
    /\ DOMAIN shuffle_results # {}
    /\ DistinctKeys = 1
    /\ 1 \in DOMAIN worker_threads
    /\ worker_threads[1].status = "threw"
    /\ worker_threads[1].thrown = "Invalid argument"
    /\ 0 \in DOMAIN fs
    /\ 1 \notin DOMAIN fs

\* ---------------------------------------------------------------- C20
\* A non-empty file, at least one mapper and no reducer.
NoReducers == file # <<>> /\ mnum >= 1 /\ rnum <= 0

\* C20 (Late rejection of the reducer count): with a non-empty file, mnum >= 1
\* and rnum <= 0, main starts Sectioning, which does not reject the arguments;
\* main leaves Mapping for Shuffle only when all mnum mappers have been spawned,
\* have finished and are joined; "Invalid argument" is reported only by the
\* step in which Shuffle throws; main never gets to Reducing, no worker is
\* spawned after Mapping and no artifact is created or written.
LateRejection ==
    [][ NoReducers =>
          /\ pc = "Idle" => pc' = "Sectioning"
          /\ (pc = "Sectioning" /\ pc' = "Failed") => err' = "Can't open file"
          /\ (pc = "Mapping" /\ pc' # pc /\ pc' # "Aborted") =>
                /\ pc' = "Shuffling"
                /\ AllFinished(mnum)
                /\ joined = mnum - 1
          /\ err' = "Invalid argument" =>
                /\ pc \in {"Shuffling", "Failed"}
                /\ pc' = "Failed"
          /\ pc = "Shuffling" => (pc' = "Failed" /\ err' = "Invalid argument")
          /\ pc' \notin {"Reducing", "Done"}
          /\ pc # "Mapping" => size(worker_threads') <= size(worker_threads)
          /\ fs' = fs ]_vars

\* Shuffle has rejected the reducer count after two mappers ran and emitted
\* their lines.
LateRejectionWitness ==
    /\ NoReducers
    /\ mnum >= 2
    /\ pc = "Failed"
    /\ err = "Invalid argument"
    /\ Len(Concat(map_results, 0)) >= 2

====
